---------------------------- MODULE Spec2Model ----------------------------
(***************************************************************************)
(* A model of server.py: the status classifier, the date helpers, the      *)
(* page navigator, the calendar picker, the table-refresh wait, the table  *)
(* reader, the query orchestrator and the two HTTP handlers.               *)
(*                                                                         *)
(* Python strings are sequences of one-character strings, so that          *)
(* str.strip, str.lower, the regular expressions and strptime/strftime are *)
(* computed character by character, as the code computes them.             *)
(***************************************************************************)
EXTENDS Integers, Sequences, FiniteSets, TLC

VARIABLES
    \* ---- classify_status applied to one text (specification SpecClassify)
    text,            \* the argument of classify_status
    classified,      \* << >>, or the tuple classify_status returned
    \* ---- one request through /api or /run (specification Spec)
    pc,              \* position of the request in the handler / query_date
    endpoint,        \* "api" or "run"
    date_str,        \* the request's date parameter
    playwright,      \* "none" | "started" | "stopped" (async with, line 345)
    browser,         \* "none" | "open" | "closed"     (launch / close)
    page,            \* TRUE once browser.new_page() returned
    stages,          \* the stages query_date has started, in order
    exc,             \* "none", or the exception propagating out of query_date
    dismissed,       \* open_product: label index whose click succeeded (0: none)
    onclick_js,      \* open_product: the onclick attribute read at line 101
    opened,          \* "unset" | "True" | "False": open_product's return value
    target_title,    \* picker: _month_year(date_str)[0]
    day,             \* picker: _month_year(date_str)[1]
    widget,          \* picker: the calendar widget of the page
    shown,           \* picker: month offset the widget has been stepped by
    steps,           \* picker: iterations of the month loop started so far
    attempts,        \* picker: per step, the button clicked first
    clicks,          \* picker: the month-step clicks that succeeded, in order
    cells,           \* picker: the widget's day cells, in widget order
    matched,         \* picker: index in cells of the matched cell (0: None)
    dayClicked,      \* picker: index in cells of the clicked cell (0: none)
    settled,         \* picker: "unset", or how the wait of line 198 ended
    cur_val,         \* picker: the input control's value read at line 204
    picked,          \* "unset" | "True" | "False": the picker's return value
    before_len,      \* refresh wait: "unset" | "None" | "len"
    table,           \* reader: the availability table of the page
    rows,            \* reader: the rows read_name_and_status returned
    result,          \* "none", or the dict query_date returned
    status           \* 0, or the HTTP status of the response

vars == <<text, classified, pc, endpoint, date_str, playwright, browser, page,
          stages, exc, dismissed, onclick_js, opened, target_title, day,
          widget, shown, steps, attempts, clicks, cells, matched, dayClicked,
          settled, cur_val, picked, before_len, table, rows, result, status>>

---------------------------------------------------------------------------
(* Characters and the str methods the code uses                            *)

UpperChars == <<"A","B","C","D","E","F","G","H","I","J","K","L","M",
                "N","O","P","Q","R","S","T","U","V","W","X","Y","Z">>
LowerChars == <<"a","b","c","d","e","f","g","h","i","j","k","l","m",
                "n","o","p","q","r","s","t","u","v","w","x","y","z">>
DigitChars == <<"0","1","2","3","4","5","6","7","8","9">>

Range(s) == {s[i] : i \in DOMAIN s}

IsSpace(c) == c \in {" ", "\t", "\n"}
IsDigit(c) == c \in Range(DigitChars)
IsWordChar(c) ==
    c \in Range(UpperChars) \cup Range(LowerChars) \cup Range(DigitChars) \cup {"_"}

LowerChar(c) ==
    IF c \in Range(UpperChars)
    THEN LowerChars[CHOOSE i \in DOMAIN UpperChars : UpperChars[i] = c]
    ELSE c

\* str.lower()
Lower(s) == [i \in DOMAIN s |-> LowerChar(s[i])]

DigitValue(c) == (CHOOSE i \in DOMAIN DigitChars : DigitChars[i] = c) - 1

\* str.strip()
Strip(s) ==
    LET keep == {i \in DOMAIN s : ~IsSpace(s[i])}
    IN  IF keep = {} THEN << >>
        ELSE LET lo == CHOOSE i \in keep : \A j \in keep : i <= j
                 hi == CHOOSE i \in keep : \A j \in keep : j <= i
             IN  SubSeq(s, lo, hi)

\* int(s) for a string of decimal digits
RECURSIVE ParseInt(_)
ParseInt(s) ==
    IF s = << >> THEN 0
    ELSE 10 * ParseInt(SubSeq(s, 1, Len(s) - 1)) + DigitValue(s[Len(s)])

\* str(n) for n >= 0
RECURSIVE IntToStr(_)
IntToStr(n) ==
    IF n < 10 THEN <<DigitChars[n + 1]>>
    ELSE Append(IntToStr(n \div 10), DigitChars[(n % 10) + 1])

\* "needle in s"
Contains(s, needle) ==
    \E i \in 1..(Len(s) - Len(needle) + 1) :
        SubSeq(s, i, i + Len(needle) - 1) = needle

---------------------------------------------------------------------------
(* The regular expressions of lines 19-23, matched with re.I               *)

W_limited   == <<"l","i","m","i","t","e","d">>
W_seats     == <<"s","e","a","t","s">>
W_available == <<"a","v","a","i","l","a","b","l","e">>
W_book      == <<"b","o","o","k">>
W_now       == <<"n","o","w">>
W_fully     == <<"f","u","l","l","y">>
W_booked    == <<"b","o","o","k","e","d">>
W_not       == <<"n","o","t">>

\* The literal w matches t at position i, ignoring case; the position after
\* it, or 0 when it does not match.
MatchLit(t, i, w) ==
    IF i >= 1 /\ i + Len(w) - 1 <= Len(t)
       /\ Lower(SubSeq(t, i, i + Len(w) - 1)) = w
    THEN i + Len(w) ELSE 0

\* The position after the longest run of characters satisfying the class
\* that starts at i (i itself when the run is empty).
RECURSIVE SkipSpaces(_, _)
SkipSpaces(t, i) ==
    IF i >= 1 /\ i <= Len(t) /\ IsSpace(t[i]) THEN SkipSpaces(t, i + 1) ELSE i

RECURSIVE SkipDigits(_, _)
SkipDigits(t, i) ==
    IF i >= 1 /\ i <= Len(t) /\ IsDigit(t[i]) THEN SkipDigits(t, i + 1) ELSE i

\* \b at position i (between t[i-1] and t[i])
WordBoundary(t, i) ==
    LET before == i > 1 /\ i - 1 <= Len(t) /\ IsWordChar(t[i - 1])
        after  == i >= 1 /\ i <= Len(t) /\ IsWordChar(t[i])
    IN  before # after

\* limited\s+seats\s+(\d+)\s+available anchored at i: <<start, end>> of
\* group 1, or << >>.  Each \s+ and \d+ is followed by a character outside
\* its class, so the greedy run is the only way to match.
LimitedAt(t, i) ==
    LET a == MatchLit(t, i, W_limited)
        b == SkipSpaces(t, a)
        c == MatchLit(t, b, W_seats)
        d == SkipSpaces(t, c)
        e == SkipDigits(t, d)
        f == SkipSpaces(t, e)
        g == MatchLit(t, f, W_available)
    IN  IF a # 0 /\ b > a /\ c # 0 /\ d > c /\ e > d /\ f > e /\ g # 0
        THEN <<d, e - 1>> ELSE << >>

\* PAT_LIMITED.search(t): group 1 of the leftmost match, or << >> for None
PAT_LIMITED(t) ==
    LET hits == {i \in DOMAIN t : LimitedAt(t, i) # << >>}
    IN  IF hits = {} THEN << >>
        ELSE LET i == CHOOSE k \in hits : \A j \in hits : k <= j
                 g == LimitedAt(t, i)
             IN  <<SubSeq(t, g[1], g[2])>>

\* \b w1 \s{min,} w2 \b anchored at i
PhraseAt(t, i, w1, w2, min) ==
    LET a == MatchLit(t, i, w1)
        b == SkipSpaces(t, a)
        c == MatchLit(t, b, w2)
    IN  /\ WordBoundary(t, i)
        /\ a # 0 /\ b - a >= min /\ c # 0
        /\ WordBoundary(t, c)

\* PAT_BOOKNOW.search(t) is not None:  \bbook\s*now\b
PAT_BOOKNOW(t) == \E i \in DOMAIN t : PhraseAt(t, i, W_book, W_now, 0)
\* PAT_FULL.search(t) is not None:     \bfully\s+booked\b
PAT_FULL(t) == \E i \in DOMAIN t : PhraseAt(t, i, W_fully, W_booked, 1)
\* PAT_NA.search(t) is not None:       \bnot\s+available\b
PAT_NA(t) == \E i \in DOMAIN t : PhraseAt(t, i, W_not, W_available, 1)
\* PAT_AVAIL.search(t) is not None:    \bavailable\b
PAT_AVAIL(t) ==
    \E i \in DOMAIN t :
        /\ WordBoundary(t, i)
        /\ MatchLit(t, i, W_available) # 0
        /\ WordBoundary(t, MatchLit(t, i, W_available))

\* Python's None is the empty tuple and a value v that may be None is <<v>>,
\* so that TLC can compare the two.
None == << >>
Some(v) == <<v>>

\* classify_status with the order of the FULL and BOOK_NOW tests exchanged
classify_status_full_first(txt) ==
    LET t == Strip(txt)
        m == PAT_LIMITED(t)
    IN  IF t = << >> THEN <<"NA", FALSE, None>>
        ELSE IF m # << >> THEN <<"LIMITED", TRUE, Some(ParseInt(m[1]))>>
        ELSE IF PAT_FULL(t) THEN <<"FULL", FALSE, Some(0)>>
        ELSE IF PAT_BOOKNOW(t) THEN <<"BOOK_NOW", TRUE, None>>
        ELSE IF PAT_NA(t) THEN <<"NA", FALSE, None>>
        ELSE IF PAT_AVAIL(t) THEN <<"AVAILABLE", TRUE, None>>
        ELSE <<"UNKNOWN", FALSE, None>>

\* classify_status(text) -> (code, is_available, seats_left)
classify_status(txt) ==
    LET t == Strip(txt)
        m == PAT_LIMITED(t)
    IN  IF t = << >> THEN <<"NA", FALSE, None>>
        ELSE IF m # << >> THEN <<"LIMITED", TRUE, Some(ParseInt(m[1]))>>
        ELSE IF PAT_BOOKNOW(t) THEN <<"BOOK_NOW", TRUE, None>>
        ELSE IF PAT_FULL(t) THEN <<"FULL", FALSE, Some(0)>>
        ELSE IF PAT_NA(t) THEN <<"NA", FALSE, None>>
        ELSE IF PAT_AVAIL(t) THEN <<"AVAILABLE", TRUE, None>>
        ELSE <<"UNKNOWN", FALSE, None>>

---------------------------------------------------------------------------
(* datetime.strptime / strftime for the two formats the code uses          *)

MonthNames == <<
    <<"J","a","n","u","a","r","y">>,
    <<"F","e","b","r","u","a","r","y">>,
    <<"M","a","r","c","h">>,
    <<"A","p","r","i","l">>,
    <<"M","a","y">>,
    <<"J","u","n","e">>,
    <<"J","u","l","y">>,
    <<"A","u","g","u","s","t">>,
    <<"S","e","p","t","e","m","b","e","r">>,
    <<"O","c","t","o","b","e","r">>,
    <<"N","o","v","e","m","b","e","r">>,
    <<"D","e","c","e","m","b","e","r">>>>

\* s split at every occurrence of the character sep
RECURSIVE Split(_, _)
Split(s, sep) ==
    IF \A i \in DOMAIN s : s[i] # sep THEN <<s>>
    ELSE LET k == CHOOSE i \in DOMAIN s :
                      s[i] = sep /\ \A j \in 1..(i - 1) : s[j] # sep
         IN  <<SubSeq(s, 1, k - 1)>> \o Split(SubSeq(s, k + 1, Len(s)), sep)

AllDigits(f) == \A i \in DOMAIN f : IsDigit(f[i])

\* %d:  3[0-1] | [1-2]\d | 0[1-9] | [1-9] | " "[1-9]
DayField(f) ==
    \/ Len(f) = 2 /\ AllDigits(f) /\ ParseInt(f) \in 1..31
    \/ Len(f) = 1 /\ AllDigits(f) /\ ParseInt(f) \in 1..9
    \/ Len(f) = 2 /\ f[1] = " " /\ IsDigit(f[2]) /\ DigitValue(f[2]) \in 1..9
\* %m:  1[0-2] | 0[1-9] | [1-9]
MonthField(f) ==
    \/ Len(f) = 2 /\ AllDigits(f) /\ ParseInt(f) \in 1..12
    \/ Len(f) = 1 /\ AllDigits(f) /\ ParseInt(f) \in 1..9
\* %Y:  \d\d\d\d, and datetime wants a year from MINYEAR = 1
YearField(f) == Len(f) = 4 /\ AllDigits(f) /\ ParseInt(f) >= 1

IsLeap(y) == (y % 4 = 0 /\ y % 100 # 0) \/ y % 400 = 0
DaysInMonth(y, m) ==
    IF m = 2 THEN (IF IsLeap(y) THEN 29 ELSE 28)
    ELSE IF m \in {4, 6, 9, 11} THEN 30 ELSE 31

\* dt.datetime.strptime(s, "%d/%m/%Y"): <<year, month, day>>, or << >> for
\* the ValueError (no match, unconverted data, or no such day)
strptime_dmY(s) ==
    LET fs == Split(s, "/")
    IN  IF Len(fs) = 3 /\ DayField(fs[1]) /\ MonthField(fs[2]) /\ YearField(fs[3])
        THEN LET y == ParseInt(fs[3])
                 m == ParseInt(fs[2])
                 d == ParseInt(Strip(fs[1]))
             IN  IF d <= DaysInMonth(y, m) THEN <<y, m, d>> ELSE << >>
        ELSE << >>

\* dt.datetime.strptime(s, "%B %Y"): <<year, month, 1>>, or << >> for the
\* ValueError.  %B matches a full month name ignoring case, the blank of
\* the format matches \s+, %Y is four digits, and nothing may follow.
strptime_BY(s) ==
    LET ms == {m \in DOMAIN MonthNames :
                  MatchLit(s, 1, Lower(MonthNames[m])) # 0}
    IN  IF ms = {} THEN << >>
        ELSE LET m == CHOOSE k \in ms : TRUE
                 a == MatchLit(s, 1, Lower(MonthNames[m]))
                 b == SkipSpaces(s, a)
                 y == SubSeq(s, b, Len(s))
             IN  IF b > a /\ YearField(y) THEN <<ParseInt(y), m, 1>> ELSE << >>

\* d.strftime("%B %Y") for d = <<year, month, day>>
strftime_BY(d) == MonthNames[d[2]] \o <<" ">> \o IntToStr(d[1])

\* tgt > cur on two datetimes
DateAfter(a, b) ==
    \/ a[1] > b[1]
    \/ a[1] = b[1] /\ a[2] > b[2]
    \/ a[1] = b[1] /\ a[2] = b[2] /\ a[3] > b[3]

\* _month_year(date_str): <<label, day>>, or << >> when strptime raises
month_year(s) ==
    LET d == strptime_dmY(s)
    IN  IF d = << >> THEN << >> ELSE <<strftime_BY(d), d[3]>>

---------------------------------------------------------------------------
(* The texts classify_status is applied to: every concatenation of at most *)
(* MaxFrags of these fragments.                                            *)

F_limited_seats  == <<"L","i","m","i","t","e","d"," ","s","e","a","t","s"," ">>
F_three          == <<"3"," ">>
F_zero           == <<"0"," ">>
F_seven          == <<"0","7">>
F_space          == <<" ">>
F_available      == <<"a","v","a","i","l","a","b","l","e">>
F_Book_Now       == <<"B","o","o","k"," ","N","o","w">>
F_booknow        == <<"b","o","o","k","n","o","w">>
F_Fully_Booked   == <<"F","U","L","L","Y"," "," ","b","o","o","k","e","d">>
F_not            == <<"N","o","t">>
F_un             == <<"u","n">>
F_e              == <<"e">>
F_newline        == <<"\n">>
F_dash           == <<"-">>
F_sold_out       == <<"S","o","l","d"," ","o","u","t">>

Fragments == {F_limited_seats,
              F_three,
              F_zero,
              F_seven,
              F_space,
              F_available,
              F_Book_Now,
              F_booknow,
              F_Fully_Booked,
              F_not,
              F_un,
              F_e,
              F_newline,
              F_dash,
              F_sold_out}

MaxFrags == 3

RECURSIVE Concat(_)
Concat(ss) == IF ss = << >> THEN << >> ELSE Head(ss) \o Concat(Tail(ss))

Texts == UNION {{Concat(fs) : fs \in [1..n -> Fragments]} : n \in 0..MaxFrags}

---------------------------------------------------------------------------
(* What the request and the external site can be                           *)

\* the date parameter of the request
D_14_12_2025 == <<"1","4","/","1","2","/","2","0","2","5">>
D_5_1_2026   == <<"5","/","1","/","2","0","2","6">>
D_31_02_2026 == <<"3","1","/","0","2","/","2","0","2","6">>
D_iso        == <<"2","0","2","5","-","1","2","-","1","4">>
RequestDates == {D_14_12_2025, D_5_1_2026, D_31_02_2026, D_iso, << >>}

Endpoints == {"api", "run"}

\* what an awaited call of the browser library can do: return, raise
\* playwright's TimeoutError (PWTimeout), or raise another Exception
Outcomes == {"ok", "PWTimeout", "Exception"}

\* the onclick attribute of the product's link: None, or Some(string)
JS_changeCategory == <<"c","h","a","n","g","e","C","a","t","e","g","o","r","y","(","7",")">>
JS_other          == <<"g","o","(",")">>
OnclickValues == {None, Some(<< >>), Some(JS_changeCategory), Some(JS_other)}
S_changeCategory == <<"c","h","a","n","g","e","C","a","t","e","g","o","r","y">>

CONFIRM_LABELS == 5     \* the labels tried on the consent dialog
MONTH_STEPS == 36       \* the range of the month loop

\* ---- the calendar widget
\* A widget starts on the month `start`; each click that succeeds moves it
\* one month unless it is frozen; `style` is how it writes its label.
MonthAdd(ym, k) ==
    LET n == ym[1] * 12 + (ym[2] - 1) + k
    IN  <<n \div 12, (n % 12) + 1>>

Label(w, k) ==
    LET ym   == MonthAdd(w.start, IF w.frozen THEN 0 ELSE k)
        name == MonthNames[ym[2]]
        year == IntToStr(ym[1])
    IN  CASE w.style = "title"  -> name \o <<" ">> \o year
          [] w.style = "lower"  -> Lower(name \o <<" ">> \o year)
          [] w.style = "padded" -> <<" ">> \o name \o <<" ">> \o year \o <<"\n">>
          [] w.style = "double" -> name \o <<" ", " ">> \o year
          [] w.style = "short"  -> SubSeq(name, 1, 3) \o <<" ">> \o year

Widget(start, style, frozen, nextOk, prevOk, hasSwitch) ==
    [start |-> start, style |-> style, frozen |-> frozen,
     nextOk |-> nextOk, prevOk |-> prevOk, hasSwitch |-> hasSwitch]

StartMonths == {<<2025, 12>>, <<2026, 1>>, <<2025, 10>>, <<2026, 3>>,
                <<2022, 12>>, <<2029, 1>>}

Widgets ==
    {Widget(st, "title", FALSE, TRUE, TRUE, TRUE) : st \in StartMonths}
    \cup {Widget(st, sty, FALSE, TRUE, TRUE, TRUE) :
              st \in {<<2025, 12>>, <<2025, 10>>},
              sty \in {"lower", "padded", "double", "short"}}
    \cup {Widget(st, "title", TRUE, TRUE, TRUE, TRUE) :
              st \in {<<2025, 10>>, <<2026, 3>>}}
    \cup {Widget(st, "title", FALSE, ok[1], ok[2], TRUE) :
              st \in {<<2025, 10>>, <<2026, 3>>},
              ok \in {<<FALSE, TRUE>>, <<TRUE, FALSE>>}}
    \cup {Widget(<<2025, 10>>, "title", FALSE, TRUE, TRUE, FALSE)}

\* ---- the day cells of the widget: class attribute and inner text
Cell(class, txt) == [class |-> class, text |-> txt]
K_day          == <<"d","a","y">>
K_day_disabled == <<"d","a","y"," ","d","i","s","a","b","l","e","d">>
K_day_Disabled == <<"d","a","y"," ","w","e","e","k","e","n","d"," ","D","i","s","a","b","l","e","d">>
K_old_day      == <<"o","l","d"," ","d","a","y">>
K_day_new      == <<"d","a","y"," ","n","e","w">>
S_day      == <<"d","a","y">>
S_old      == <<"o","l","d">>
S_new      == <<"n","e","w">>
S_disabled == <<"d","i","s","a","b","l","e","d">>

CellKinds == {Cell(K_day, <<"1","4">>),
              Cell(K_day_disabled, <<"1","4">>),
              Cell(K_old_day, <<"1","4">>),
              Cell(K_day, <<" ","5","\n">>),
              Cell(K_day, <<"0","5">>),
              Cell(K_day_Disabled, <<"5">>),
              Cell(K_day_new, <<"5">>)}

MaxCells == 2

SeqsUpTo(S, n) == UNION {[1..k -> S] : k \in 0..n}

CellLists == SeqsUpTo(CellKinds, MaxCells)

\* the value of input#datetimepicker-input after the click
InputValues == {D_14_12_2025,
                <<"1","4","/","1","2","/","2","0","2","5"," ">>,
                <<"1","5","/","1","2","/","2","0","2","5">>,
                D_5_1_2026,
                <<"0","5","/","0","1","/","2","0","2","6">>,
                <<"1","4","/","1","2","/","2","5">>,
                << >>}

\* ---- the availability table
T_limited == <<"L","i","m","i","t","e","d"," ","s","e","a","t","s"," ","3"," ","a","v","a","i","l","a","b","l","e">>
T_book    == <<"B","o","o","k"," ","N","o","w">>
T_full    == <<"F","u","l","l","y"," ","B","o","o","k","e","d">>
T_na      == <<"N","o","t"," ","A","v","a","i","l","a","b","l","e">>
T_avail   == <<"A","v","a","i","l","a","b","l","e">>
T_other   == <<"S","o","l","d"," ","o","u","t">>
T_blank   == <<" ">>
N_A       == <<" ","1","0",":","0","0"," ">>
N_B       == <<"1","1",":","1","0">>
S_Not_Available == <<"N","o","t"," ","A","v","a","i","l","a","b","l","e">>

\* a date-status cell: the text of its .GBEAvailCalFirstFare element (None:
\* no such element), its own inner text (None: inner_text raises) and its
\* aria-label attribute
StatusCell(fare, txt, aria) == [fare |-> fare, text |-> txt, aria |-> aria]

StatusCells ==
    {StatusCell(Some(t), Some(T_avail), None) : t \in {T_limited, T_full, T_blank}}
    \cup {StatusCell(None, Some(t), Some(T_full)) :
              t \in {T_book, T_na, T_other, << >>}}
    \cup {StatusCell(None, None, a) : a \in {None, Some(T_avail)}}

\* a row-wrapper: the text of its title span (None: no title element),
\* whether reading that text raises, and its date-status cells
Wrapper(title, broken, selects) ==
    [title |-> title, broken |-> broken, selects |-> selects]

Wrappers ==
    {Wrapper(Some(N_A), FALSE, <<c>>) : c \in StatusCells}
    \cup {Wrapper(Some(N_B), FALSE,
                  <<StatusCell(Some(T_limited), Some(T_avail), None),
                    StatusCell(None, Some(T_book), Some(T_full))>>),
          Wrapper(Some(N_B), FALSE,
                  <<StatusCell(None, Some(T_book), Some(T_full)),
                    StatusCell(Some(T_limited), Some(T_avail), None)>>),
          Wrapper(None, FALSE, <<StatusCell(None, Some(T_book), Some(T_full))>>),
          Wrapper(Some(N_B), FALSE, << >>),
          Wrapper(Some(N_A), TRUE, <<StatusCell(None, Some(T_book), Some(T_full))>>)}

MaxWraps == 2

\* the table: whether it holds a .cl_availability-table container, and the
\* row-wrappers of that container in document order
Tables ==
    {[container |-> FALSE, wraps |-> << >>]}
    \cup {[container |-> TRUE, wraps |-> ws] : ws \in SeqsUpTo(Wrappers, MaxWraps)}

---------------------------------------------------------------------------
(* read_name_and_status, lines 262-331                                     *)

\* lines 304-318: the status text of a date-status cell
status_text_of(cell) ==
    LET first == IF cell.fare # None THEN Strip(cell.fare[1])
                 ELSE IF cell.text # None THEN Strip(cell.text[1])
                 ELSE << >>
    IN  IF first = << >> /\ cell.aria # None /\ cell.aria[1] # << >>
        THEN Strip(cell.aria[1])
        ELSE first

\* the cell a wrapper's status is read from: selects.nth(LAST) instead of 0
current_cell_last(w) == w.selects[Len(w.selects)]

\* line 302: cell = selects.nth(0)
current_cell(w) == w.selects[1]

\* a row that keeps the extracted text even when it is empty
row_of_raw_text(w) ==
    LET txt == status_text_of(current_cell(w))
        c   == classify_status(txt)
    IN  [name        |-> Strip(w.title[1]),
         status_text |-> txt,
         code        |-> c[1],
         available   |-> c[2],
         seats_left  |-> c[3]]

\* lines 320-329: the row appended for a wrapper
row_of(w) ==
    LET txt == status_text_of(current_cell(w))
        c   == classify_status(txt)
    IN  [name        |-> Strip(w.title[1]),
         status_text |-> IF txt = << >> THEN S_Not_Available ELSE txt,
         code        |-> c[1],
         available   |-> c[2],
         seats_left  |-> c[3]]

\* lines 291-292 and 298-299: the two `continue` of the loop
skips(w) == w.title = None \/ Len(w.selects) = 0

\* lines 286-329: the loop over the wrappers from index i, rows so far acc
RECURSIVE read_wraps(_, _, _)
read_wraps(ws, i, acc) ==
    IF i > Len(ws) THEN [raised |-> FALSE, rows |-> acc]
    ELSE IF ws[i].title # None /\ ws[i].broken
         THEN [raised |-> TRUE, rows |-> << >>]
    ELSE IF skips(ws[i]) THEN read_wraps(ws, i + 1, acc)
    ELSE read_wraps(ws, i + 1, Append(acc, row_of(ws[i])))

\* read_name_and_status(table_root): the rows, or raised when a read of the
\* page raised inside it
read_name_and_status(tb) ==
    IF ~tb.container THEN [raised |-> FALSE, rows |-> << >>]
    ELSE IF Len(tb.wraps) = 0 THEN [raised |-> FALSE, rows |-> << >>]
    ELSE read_wraps(tb.wraps, 1, << >>)

---------------------------------------------------------------------------
(* The request: run_api / run_html calling query_date                      *)

clsVars  == <<text, classified>>
reqVars  == <<endpoint, date_str>>
sessVars == <<playwright, browser, page>>
navVars  == <<dismissed, onclick_js, opened>>
loopVars == <<widget, shown, steps, attempts, clicks>>
cellVars == <<cells, matched, dayClicked, settled, cur_val>>
pickVars == <<target_title, day, loopVars, cellVars, picked>>
readVars == <<before_len, table, rows>>
outVars  == <<result, status>>

\* the locals of a function that is not running
NavIdle ==
    /\ dismissed = 0 /\ onclick_js = None /\ opened = "unset"
LoopIdle ==
    /\ widget = None /\ shown = 0 /\ steps = 0
    /\ attempts = << >> /\ clicks = << >>
PickIdle ==
    /\ target_title = << >> /\ day = 0 /\ LoopIdle
    /\ cells = << >> /\ matched = 0 /\ dayClicked = 0
    /\ settled = "unset" /\ cur_val = << >>
    /\ picked = "unset"
ReadIdle ==
    /\ before_len = "unset" /\ table = None /\ rows = << >>

RequestIdle ==
    /\ playwright = "none" /\ browser = "none" /\ page = FALSE
    /\ stages = << >> /\ exc = "none"
    /\ NavIdle /\ PickIdle /\ ReadIdle
    /\ result = None /\ status = 0

\* a request for one of the two endpoints with some date parameter
Init ==
    /\ text = << >> /\ classified = << >>
    /\ pc = "handler"
    /\ endpoint \in Endpoints
    /\ date_str \in RequestDates
    /\ RequestIdle

\* the result dict query_date returns
Result(ok, message, rs) ==
    [ok |-> ok, message |-> message, date |-> date_str, rows |-> rs]

\* an exception leaves the try block of query_date: control goes to finally
Propagate(e) ==
    /\ exc' = e
    /\ pc' = "finally"

\* line 345: async with async_playwright() as p
EnterPlaywright ==
    /\ pc = "handler"
    /\ playwright' = "started"
    /\ pc' = "launch"
    /\ UNCHANGED <<clsVars, reqVars, browser, page, stages, exc, navVars,
                   pickVars, readVars, outVars>>

\* line 346: browser = await p.chromium.launch(...), outside the try block
Launch ==
    /\ pc = "launch"
    /\ \E o \in Outcomes :
          IF o = "ok"
          THEN browser' = "open" /\ pc' = "new_page" /\ exc' = exc
          ELSE browser' = browser /\ pc' = "exit_with" /\ exc' = o
    /\ UNCHANGED <<clsVars, reqVars, playwright, page, stages, navVars,
                   pickVars, readVars, outVars>>

\* line 347: page = await browser.new_page(), outside the try block
NewPage ==
    /\ pc = "new_page"
    /\ \E o \in Outcomes :
          IF o = "ok"
          THEN page' = TRUE /\ pc' = "goto" /\ exc' = exc
          ELSE page' = page /\ pc' = "exit_with" /\ exc' = o
    /\ UNCHANGED <<clsVars, reqVars, playwright, browser, stages, navVars,
                   pickVars, readVars, outVars>>

\* ---- open_product, lines 62-116

\* line 69: await page.goto(...), outside any try of open_product
Goto ==
    /\ pc = "goto"
    /\ stages' = Append(stages, "navigator")
    /\ \E o \in Outcomes :
          IF o = "ok" THEN pc' = "dismiss" /\ exc' = exc ELSE Propagate(o)
    /\ UNCHANGED <<clsVars, reqVars, sessVars, navVars, pickVars, readVars,
                   outVars>>

\* lines 72-77: click the labels in turn until one click succeeds
Dismiss ==
    /\ pc = "dismiss"
    /\ \E k \in 0..CONFIRM_LABELS : dismissed' = k
    /\ pc' = "card"
    /\ UNCHANGED <<clsVars, reqVars, sessVars, stages, exc, onclick_js, opened,
                   pickVars, readVars, outVars>>

\* open_product returns v: its locals die, its caller tests `ok`
ReturnOpened(v) ==
    /\ opened' = v
    /\ dismissed' = 0
    /\ onclick_js' = None
    /\ pc' = "after_open"

\* lines 79-92: wait for the product card; both handlers return False
CardWait ==
    /\ pc = "card"
    /\ \E o \in Outcomes :
          IF o = "ok"
          THEN pc' = "onclick" /\ UNCHANGED navVars
          ELSE ReturnOpened("False")
    /\ UNCHANGED <<clsVars, reqVars, sessVars, stages, exc, pickVars, readVars,
                   outVars>>

\* lines 95-101: the link of the card and its onclick attribute, outside any
\* try.  get_attribute waits for the element: with no link at all it can
\* only time out.
GetOnclick ==
    /\ pc = "onclick"
    /\ \E buyCount \in {0, 1}, anchors \in {0, 1}, o \in Outcomes,
          v \in OnclickValues :
          /\ (buyCount = 0 /\ anchors = 0) => o = "PWTimeout"
          /\ IF o = "ok"
             THEN onclick_js' = v /\ pc' = "activate" /\ exc' = exc
             ELSE onclick_js' = onclick_js /\ Propagate(o)
    /\ UNCHANGED <<clsVars, reqVars, sessVars, stages, dismissed, opened,
                   pickVars, readVars, outVars>>

\* line 103: onclick_js and "changeCategory" in onclick_js
UsesHandler(js) ==
    js # None /\ js[1] # << >> /\ Contains(js[1], S_changeCategory)

\* lines 102-109: run the inline handler or click the link; any exception
\* returns False
Activate ==
    /\ pc = "activate"
    /\ \E o \in Outcomes :
          /\ UsesHandler(onclick_js) => o # "PWTimeout"
          /\ IF o = "ok"
             THEN pc' = "settle" /\ UNCHANGED navVars
             ELSE ReturnOpened("False")
    /\ UNCHANGED <<clsVars, reqVars, sessVars, stages, exc, pickVars, readVars,
                   outVars>>

\* lines 111-116: wait for networkidle; any exception is replaced by a pause
SettleOpened ==
    /\ pc = "settle"
    /\ \E o \in Outcomes : ReturnOpened("True")
    /\ UNCHANGED <<clsVars, reqVars, sessVars, stages, exc, pickVars, readVars,
                   outVars>>

\* an orchestrator that goes on to the picker whatever open_product returned
AfterOpen_goes_on ==
    /\ pc = "after_open"
    /\ pc' = "pick_input"
    /\ UNCHANGED <<clsVars, reqVars, sessVars, stages, exc, navVars, pickVars,
                   readVars, outVars>>

\* lines 351-358: ok = await open_product(page); if not ok: return {...}
AfterOpen ==
    /\ pc = "after_open"
    /\ IF opened = "False"
       THEN /\ result' = Some(Result(FALSE, "product not found", << >>))
            /\ pc' = "finally"
       ELSE /\ result' = result
            /\ pc' = "pick_input"
    /\ UNCHANGED <<clsVars, reqVars, sessVars, stages, exc, navVars, pickVars,
                   readVars, status>>

\* ---- pick_date_via_calendar, lines 120-224

\* the locals of the month loop go out of use
LoopReset ==
    /\ widget' = None /\ shown' = 0 /\ steps' = 0
    /\ attempts' = << >> /\ clicks' = << >>

\* the function returns v; its locals stay readable until the caller
\* has tested `picked`
ReturnPicked(v) ==
    /\ picked' = v
    /\ pc' = "after_pick"

\* lines 128-131: wait for the date input, scroll to it, click it; the
\* outer handler (line 221) turns any exception into False
PickInput ==
    /\ pc = "pick_input"
    /\ stages' = Append(stages, "picker")
    /\ \E o \in Outcomes :
          IF o = "ok" THEN pc' = "pick_target" /\ picked' = picked
          ELSE ReturnPicked("False")
    /\ UNCHANGED <<clsVars, reqVars, sessVars, exc, navVars, target_title, day,
                   loopVars, cellVars, readVars, outVars>>

\* line 133: target_title, day = _month_year(date_str)
PickTarget ==
    /\ pc = "pick_target"
    /\ LET my == month_year(date_str)
       IN  IF my = << >>
           THEN ReturnPicked("False") /\ UNCHANGED <<target_title, day>>
           ELSE /\ target_title' = my[1]
                /\ day' = my[2]
                /\ pc' = "pick_widget"
                /\ picked' = picked
    /\ UNCHANGED <<clsVars, reqVars, sessVars, stages, exc, navVars, loopVars,
                   cellVars, readVars, outVars>>

\* lines 136-156: wait for the calendar popup; is there a month switch?
PickWidget ==
    /\ pc = "pick_widget"
    /\ \E o \in Outcomes :
          IF o = "ok"
          THEN \E w \in Widgets :
                  /\ widget' = Some(w)
                  /\ pc' = IF w.hasSwitch THEN "pick_month" ELSE "pick_scan"
                  /\ picked' = picked
          ELSE ReturnPicked("False") /\ widget' = widget
    /\ UNCHANGED <<clsVars, reqVars, sessVars, stages, exc, navVars,
                   target_title, day, shown, steps, attempts, clicks, cellVars,
                   readVars, outVars>>

\* a step that compares the months the other way round
first_button_reversed(title, target) ==
    LET cur == strptime_BY(title)
        tgt == strptime_BY(target)
    IN  IF cur = << >> \/ tgt = << >> THEN "next"
        ELSE IF DateAfter(cur, tgt) THEN "next" ELSE "prev"

\* lines 162-169: the button a step clicks first.  The except clause of line
\* 168 is entered when either strptime raises, and clicks next_btn.
first_button(title, target) ==
    LET cur == strptime_BY(title)
        tgt == strptime_BY(target)
    IN  IF cur = << >> \/ tgt = << >> THEN "next"
        ELSE IF DateAfter(tgt, cur) THEN "next" ELSE "prev"

ButtonWorks(w, b) == IF b = "next" THEN w.nextOk ELSE w.prevOk
Moves(b) == IF b = "next" THEN 1 ELSE -1

\* lines 157-170: one iteration of the month loop.  A click that raises
\* inside the try of line 161 is caught by line 168, which clicks next_btn;
\* when that click raises too the outer handler returns False.
PickMonth ==
    /\ pc = "pick_month"
    /\ steps < MONTH_STEPS
    /\ steps' = steps + 1
    /\ LET w     == widget[1]
           title == Strip(Label(w, shown))
           first == first_button(title, target_title)
           parsed == strptime_BY(title) # << >> /\ strptime_BY(target_title) # << >>
       IN  IF Lower(title) = Lower(target_title)
           THEN /\ pc' = "pick_scan"
                /\ UNCHANGED <<shown, attempts, clicks, picked>>
           ELSE /\ attempts' = Append(attempts, first)
                /\ IF ButtonWorks(w, first)
                   THEN /\ clicks' = Append(clicks, first)
                        /\ shown' = shown + Moves(first)
                        /\ UNCHANGED <<pc, picked>>
                   ELSE IF parsed /\ w.nextOk
                   THEN /\ clicks' = Append(clicks, "next")
                        /\ shown' = shown + 1
                        /\ UNCHANGED <<pc, picked>>
                   ELSE /\ ReturnPicked("False")
                        /\ UNCHANGED <<shown, clicks>>
    /\ UNCHANGED <<clsVars, reqVars, sessVars, stages, exc, navVars,
                   target_title, day, widget, cellVars, readVars, outVars>>

\* line 157: range(36) is exhausted
PickMonthEnd ==
    /\ pc = "pick_month"
    /\ steps = MONTH_STEPS
    /\ pc' = "pick_scan"
    /\ UNCHANGED <<clsVars, reqVars, sessVars, stages, exc, navVars, pickVars,
                   readVars, outVars>>

\* line 173: dp.locator(".day:not(.old):not(.new)"), as indices into cs
HasClass(attr, name) == name \in Range(Split(attr, " "))
candidates(cs) ==
    {i \in DOMAIN cs : /\ HasClass(cs[i].class, S_day)
                       /\ ~HasClass(cs[i].class, S_old)
                       /\ ~HasClass(cs[i].class, S_new)}

\* a scan that takes the last cell with the day's text instead of the first
find_day_last(cs, d) ==
    LET hits == {i \in candidates(cs) : Strip(cs[i].text) = IntToStr(d)}
    IN  IF hits = {} THEN 0
        ELSE CHOOSE i \in hits : \A j \in hits : j <= i

\* lines 175-181: the first candidate whose stripped text is str(day); 0 for
\* matched = None
find_day(cs, d) ==
    LET hits == {i \in candidates(cs) : Strip(cs[i].text) = IntToStr(d)}
    IN  IF hits = {} THEN 0
        ELSE CHOOSE i \in hits : \A j \in hits : i <= j

\* lines 173-185: scan the cells the widget shows now.  The locals of the
\* month loop are not read after line 170 and are dropped here.
PickScan ==
    /\ pc = "pick_scan"
    /\ \E cs \in CellLists :
          /\ cells' = cs
          /\ matched' = find_day(cs, day)
          /\ IF find_day(cs, day) = 0
             THEN ReturnPicked("False")
             ELSE pc' = "pick_class" /\ picked' = picked
    /\ LoopReset
    /\ UNCHANGED <<clsVars, reqVars, sessVars, stages, exc, navVars,
                   target_title, day, dayClicked, settled, cur_val, readVars,
                   outVars>>

\* lines 188-189: "disabled" in (class attribute or "").lower()
is_disabled(cell) == Contains(Lower(cell.class), S_disabled)

\* lines 188-191: read the class attribute of the matched cell
PickClass ==
    /\ pc = "pick_class"
    /\ \E o \in {"ok", "Exception"} :
          IF o = "ok" /\ ~is_disabled(cells[matched])
          THEN pc' = "pick_click" /\ picked' = picked
          ELSE ReturnPicked("False")
    /\ UNCHANGED <<clsVars, reqVars, sessVars, stages, exc, navVars,
                   target_title, day, loopVars, cellVars, readVars, outVars>>

\* line 194: await matched.click()
PickClick ==
    /\ pc = "pick_click"
    /\ \E o \in Outcomes :
          IF o = "ok"
          THEN dayClicked' = matched /\ pc' = "pick_settle" /\ picked' = picked
          ELSE dayClicked' = dayClicked /\ ReturnPicked("False")
    /\ UNCHANGED <<clsVars, reqVars, sessVars, stages, exc, navVars,
                   target_title, day, loopVars, cells, matched, settled,
                   cur_val, readVars, outVars>>

\* lines 197-200: only PWTimeout is caught here; any other exception goes
\* to the outer handler
PickSettle ==
    /\ pc = "pick_settle"
    /\ \E o \in Outcomes :
          /\ settled' = o
          /\ IF o \in {"ok", "PWTimeout"}
             THEN pc' = "pick_verify" /\ picked' = picked
             ELSE ReturnPicked("False")
    /\ UNCHANGED <<clsVars, reqVars, sessVars, stages, exc, navVars,
                   target_title, day, loopVars, cells, matched, dayClicked,
                   cur_val, readVars, outVars>>

\* a verification that compares the two strings instead of the two dates
verified_as_text(requested, value) == requested = value

\* lines 208-219: both strings parse as %d/%m/%Y, to the same date
verified(requested, value) ==
    LET tgt_date == strptime_dmY(requested)
        cur_date == strptime_dmY(value)
    IN  tgt_date # << >> /\ cur_date # << >> /\ cur_date = tgt_date

\* lines 203-219: read the control's value ("" when the read raises) and
\* compare it with the request
PickVerify ==
    /\ pc = "pick_verify"
    /\ \E o \in {"ok", "Exception"}, v \in InputValues :
          LET val == IF o = "ok" THEN Strip(v) ELSE << >>
          IN  /\ cur_val' = val
              /\ ReturnPicked(IF verified(date_str, val) THEN "True" ELSE "False")
    /\ UNCHANGED <<clsVars, reqVars, sessVars, stages, exc, navVars,
                   target_title, day, loopVars, cells, matched, dayClicked,
                   settled, readVars, outVars>>

\* lines 361-368: picked = await pick_date_via_calendar(...); if not picked
AfterPick ==
    /\ pc = "after_pick"
    /\ IF picked = "False"
       THEN /\ result' = Some(Result(FALSE, "date not bookable", << >>))
            /\ pc' = "finally"
       ELSE /\ result' = result
            /\ pc' = "refresh_visible"
    /\ target_title' = << >> /\ day' = 0 /\ LoopReset
    /\ cells' = << >> /\ matched' = 0 /\ dayClicked' = 0
    /\ settled' = "unset" /\ cur_val' = << >>
    /\ UNCHANGED <<clsVars, reqVars, sessVars, stages, exc, navVars, picked,
                   readVars, status>>

\* ---- wait_for_table_refresh, lines 228-258

\* lines 232-233: wait for #AvailabilityTable, outside any try
RefreshVisible ==
    /\ pc = "refresh_visible"
    /\ stages' = Append(stages, "refresh")
    /\ \E o \in Outcomes :
          IF o = "ok" THEN pc' = "refresh_len" /\ exc' = exc ELSE Propagate(o)
    /\ UNCHANGED <<clsVars, reqVars, sessVars, navVars, pickVars, readVars,
                   outVars>>

\* lines 235-238: the length of the table's HTML, None when the read raises
RefreshLen ==
    /\ pc = "refresh_len"
    /\ \E o \in {"ok", "Exception"} :
          IF o = "ok"
          THEN before_len' = "len" /\ pc' = "refresh_change"
          ELSE before_len' = "None" /\ pc' = "refresh_pause"
    /\ UNCHANGED <<clsVars, reqVars, sessVars, stages, exc, navVars, pickVars,
                   table, rows, outVars>>

\* lines 242-244: no baseline: pause and return
RefreshPause ==
    /\ pc = "refresh_pause"
    /\ before_len' = "unset"
    /\ pc' = "locate"
    /\ UNCHANGED <<clsVars, reqVars, sessVars, stages, exc, navVars, pickVars,
                   table, rows, outVars>>

\* lines 246-258: wait for the length to change; only PWTimeout is caught
RefreshChange ==
    /\ pc = "refresh_change"
    /\ \E o \in Outcomes :
          IF o \in {"ok", "PWTimeout"}
          THEN before_len' = "unset" /\ pc' = "locate" /\ exc' = exc
          ELSE before_len' = "unset" /\ Propagate(o)
    /\ UNCHANGED <<clsVars, reqVars, sessVars, stages, navVars, pickVars,
                   table, rows, outVars>>

\* ---- query_date, lines 373-394

\* lines 374-375: wait for #AvailabilityTable again
Locate ==
    /\ pc = "locate"
    /\ \E o \in Outcomes :
          IF o = "ok" THEN pc' = "read" /\ exc' = exc ELSE Propagate(o)
    /\ UNCHANGED <<clsVars, reqVars, sessVars, stages, navVars, pickVars,
                   readVars, outVars>>

\* lines 377-391: rows = await read_name_and_status(table_root) and the two
\* returns that follow it
Read ==
    /\ pc = "read"
    /\ stages' = Append(stages, "reader")
    /\ \E tb \in Tables :
          LET r == read_name_and_status(tb)
          IN  /\ table' = Some(tb)
              /\ IF r.raised
                 THEN /\ Propagate("PWTimeout")
                      /\ UNCHANGED <<rows, result>>
                 ELSE /\ rows' = r.rows
                      /\ result' =
                            IF r.rows = << >>
                            THEN Some(Result(FALSE, "no schedule for date", << >>))
                            ELSE Some(Result(TRUE, "success", r.rows))
                      /\ pc' = "finally"
                      /\ exc' = exc
    /\ UNCHANGED <<clsVars, reqVars, sessVars, navVars, pickVars, before_len,
                   status>>

\* lines 393-394: finally: await browser.close()
Finally ==
    /\ pc = "finally"
    /\ browser' = "closed"
    /\ pc' = "exit_with"
    /\ UNCHANGED <<clsVars, reqVars, playwright, page, stages, exc, navVars,
                   pickVars, readVars, outVars>>

\* line 345: the async with block is left, by return or by exception
ExitWith ==
    /\ pc = "exit_with"
    /\ playwright' = "stopped"
    /\ pc' = "respond"
    /\ UNCHANGED <<clsVars, reqVars, browser, page, stages, exc, navVars,
                   pickVars, readVars, outVars>>

\* the status of the response: the handler's when query_date returned, the
\* framework's 500 when the exception left the handler
Response == IF exc = "none" THEN 200 ELSE 500

\* lines 424-440: /api
RunApi ==
    /\ pc = "respond"
    /\ endpoint = "api"
    /\ status' = Response
    /\ pc' = "done"
    /\ UNCHANGED <<clsVars, reqVars, sessVars, stages, exc, navVars, pickVars,
                   readVars, result>>

\* lines 443-529: /run
RunHtml ==
    /\ pc = "respond"
    /\ endpoint = "run"
    /\ status' = Response
    /\ pc' = "done"
    /\ UNCHANGED <<clsVars, reqVars, sessVars, stages, exc, navVars, pickVars,
                   readVars, result>>

Next ==
    \/ EnterPlaywright \/ Launch \/ NewPage
    \/ Goto \/ Dismiss \/ CardWait \/ GetOnclick \/ Activate \/ SettleOpened
    \/ AfterOpen
    \/ PickInput \/ PickTarget \/ PickWidget \/ PickMonth \/ PickMonthEnd
    \/ PickScan \/ PickClass \/ PickClick \/ PickSettle \/ PickVerify
    \/ AfterPick
    \/ RefreshVisible \/ RefreshLen \/ RefreshPause \/ RefreshChange
    \/ Locate \/ Read \/ Finally \/ ExitWith
    \/ RunApi \/ RunHtml

Spec == Init /\ [][Next]_vars

---------------------------------------------------------------------------
(* classify_status on its own: every text of Texts is classified           *)

InitClassify ==
    /\ text \in Texts
    /\ classified = << >>
    /\ pc = "off"
    /\ endpoint = "api"
    /\ date_str = << >>
    /\ RequestIdle

Classify ==
    /\ classified = << >>
    /\ classified' = classify_status(text)
    /\ UNCHANGED <<text, pc, reqVars, sessVars, stages, exc, navVars, pickVars,
                   readVars, outVars>>

NextClassify == Classify

SpecClassify == InitClassify /\ [][NextClassify]_vars

---------------------------------------------------------------------------
(* Properties of classify_status (specification SpecClassify)              *)

\* A text as words: its maximal runs of word characters, its maximal runs
\* of white space, and every other character on its own.
CharClass(c) == IF IsWordChar(c) THEN "word" ELSE IF IsSpace(c) THEN "space" ELSE "other"

RECURSIVE Tokens(_)
Tokens(t) ==
    IF t = << >> THEN << >>
    ELSE LET k == CharClass(t[1])
             same == {n \in 1..Len(t) : \A j \in 1..n : CharClass(t[j]) = k}
             n == IF k = "other" THEN 1
                  ELSE CHOOSE m \in same : \A j \in same : j <= m
         IN  <<SubSeq(t, 1, n)>> \o Tokens(SubSeq(t, n + 1, Len(t)))

IsBlank(tok) == tok # << >> /\ \A i \in DOMAIN tok : IsSpace(tok[i])
EndsWith(tok, w) ==
    Len(tok) >= Len(w) /\ SubSeq(tok, Len(tok) - Len(w) + 1, Len(tok)) = w
StartsWith(tok, w) == Len(tok) >= Len(w) /\ SubSeq(tok, 1, Len(w)) = w

\* the word w1, white space, the word w2
HasWords(toks, w1, w2) ==
    \E k \in 1..(Len(toks) - 2) :
        /\ Lower(toks[k]) = w1
        /\ IsBlank(toks[k + 1])
        /\ Lower(toks[k + 2]) = w2

HasWord(toks, w) == \E k \in DOMAIN toks : Lower(toks[k]) = w

\* the positions of "...limited <ws> seats <ws> N <ws> available..."
LimitedPhrases(toks) ==
    {k \in 1..(Len(toks) - 6) :
        /\ EndsWith(Lower(toks[k]), W_limited)
        /\ IsBlank(toks[k + 1])
        /\ Lower(toks[k + 2]) = W_seats
        /\ IsBlank(toks[k + 3])
        /\ AllDigits(toks[k + 4])
        /\ IsBlank(toks[k + 5])
        /\ StartsWith(Lower(toks[k + 6]), W_available)}

\* the rules read on words, in their priority order
RulesOnWords(t) ==
    LET toks == Tokens(t)
        lim  == LimitedPhrases(toks)
    IN  IF \A k \in DOMAIN toks : IsBlank(toks[k]) THEN <<"NA", FALSE, None>>
        ELSE IF lim # {}
        THEN LET k == CHOOSE i \in lim : \A j \in lim : i <= j
             IN  <<"LIMITED", TRUE, Some(ParseInt(toks[k + 4]))>>
        ELSE IF HasWords(toks, W_book, W_now) \/ HasWord(toks, W_book \o W_now)
        THEN <<"BOOK_NOW", TRUE, None>>
        ELSE IF HasWords(toks, W_fully, W_booked) THEN <<"FULL", FALSE, Some(0)>>
        ELSE IF HasWords(toks, W_not, W_available) THEN <<"NA", FALSE, None>>
        ELSE IF HasWord(toks, W_available) THEN <<"AVAILABLE", TRUE, None>>
        ELSE <<"UNKNOWN", FALSE, None>>

\* the rules read on substrings: the two words of a phrase anywhere in the
\* text, ignoring case, with at least min white space between them
ContainsPhrase(t, w1, w2, min) ==
    \E i \in DOMAIN t :
        LET a == MatchLit(t, i, w1)
            b == SkipSpaces(t, a)
        IN  a # 0 /\ b - a >= min /\ MatchLit(t, b, w2) # 0

P_not_available == W_not \o <<" ">> \o W_available

RulesOnSubstrings(t) ==
    LET m == PAT_LIMITED(Strip(t))
    IN  IF Strip(t) = << >> THEN <<"NA", FALSE, None>>
        ELSE IF m # << >> THEN <<"LIMITED", TRUE, Some(ParseInt(m[1]))>>
        ELSE IF ContainsPhrase(t, W_book, W_now, 0) THEN <<"BOOK_NOW", TRUE, None>>
        ELSE IF ContainsPhrase(t, W_fully, W_booked, 1) THEN <<"FULL", FALSE, Some(0)>>
        ELSE IF ContainsPhrase(t, W_not, W_available, 1) THEN <<"NA", FALSE, None>>
        ELSE IF Contains(Lower(t), W_available) THEN <<"AVAILABLE", TRUE, None>>
        ELSE <<"UNKNOWN", FALSE, None>>

\* C6 as stated: the result of classify_status is the first rule, in the
\* order empty, limited seats N available, book now, fully booked, not
\* available, available, whose phrase the text contains, ignoring case and
\* the amount of white space between the words of the phrase.
C6_RulesOnSubstrings ==
    classified # << >> => classified = RulesOnSubstrings(text)

\* C6 amended: the result of classify_status is the first rule, in the same
\* order, whose phrase occurs in the text as whole words, ignoring case:
\* "book now" with any white space or none between its words, "fully
\* booked" and "not available" with white space between theirs, "available"
\* as a word, and "limited seats N available" with white space between its
\* parts; an empty or blank text is NA.
C6_RulesOnWords ==
    classified # << >> => classified = RulesOnWords(text)

\* a text that contains "available" and is classified UNKNOWN
C6_Witness ==
    /\ classified # << >>
    /\ classified[1] = "UNKNOWN"
    /\ Contains(Lower(text), W_available)
    /\ ~Contains(Lower(text), P_not_available)

---------------------------------------------------------------------------
(* Properties of a request (specification Spec)                            *)

InPicker == stages = <<"navigator", "picker">> /\ picked = "unset"
Returned == pc \in {"respond", "done"}

\* C1: once the page exists, whatever the site does, query_date returns a
\* result and raises nothing, and the handler answers with status 200.
C1_AlwaysAnswers200 ==
    (pc = "done" /\ page) => (exc = "none" /\ result # None /\ status = 200)

\* C2: a call of query_date that launched a browser has closed it when the
\* call ends, on every exit path.
C2_BrowserClosedAtExit ==
    (Returned /\ browser # "none") => browser = "closed"

StageOrder == <<"navigator", "picker", "refresh", "reader">>

\* C3: the stages run in the order navigator, picker, refresh wait, reader
\* and stop at the first that fails; the result is the product-not-found
\* one after the navigator returned False, the date-not-bookable one after
\* the picker returned False, the no-schedule one when the reader returned
\* no rows, else the success one with the reader's rows; in every result ok
\* holds exactly when rows is non-empty and date is the requested date.
C3_StagesAndResult ==
    /\ \E n \in 0..Len(StageOrder) : stages = SubSeq(StageOrder, 1, n)
    /\ opened = "False" => stages = <<"navigator">>
    /\ picked = "False" => stages = <<"navigator", "picker">>
    /\ (Returned /\ exc = "none") => result # None
    /\ result # None =>
          LET r == result[1]
          IN  /\ r.date = date_str
              /\ r.ok <=> (r.rows # << >>)
              /\ opened = "False" =>
                    /\ r.message = "product not found" /\ r.rows = << >>
              /\ (opened = "True" /\ picked = "False") =>
                    /\ r.message = "date not bookable" /\ r.rows = << >>
              /\ picked = "True" =>
                    /\ stages = StageOrder
                    /\ r.rows = rows
                    /\ r.message = IF rows = << >> THEN "no schedule for date"
                                   ELSE "success"

\* a request that ran all four stages and returned two rows
C3_Witness ==
    /\ pc = "done"
    /\ result # None
    /\ result[1].ok
    /\ Len(result[1].rows) = 2
    /\ stages = StageOrder

\* C4: open_product never raises to its caller.
C4_NavigatorNeverRaises ==
    (stages = <<"navigator">> /\ opened = "unset") => exc = "none"

SameDate(a, b) ==
    /\ strptime_dmY(a) # << >>
    /\ strptime_dmY(b) # << >>
    /\ strptime_dmY(a) = strptime_dmY(b)

\* C5: the picker raises nothing, and it returns True exactly when a day
\* cell was clicked and the control's value then read parses as dd/mm/yyyy
\* to the requested date; a timeout of the settle wait does not reject.
C5_PickedIffVerified ==
    /\ InPicker => exc = "none"
    /\ pc = "after_pick" =>
          /\ picked \in {"True", "False"}
          /\ exc = "none"
          /\ picked = "True" <=> (dayClicked # 0 /\ SameDate(cur_val, date_str))
          /\ (settled = "PWTimeout" /\ SameDate(cur_val, date_str)) =>
                picked = "True"

\* the picker returned True after a settle timeout, for a control value
\* spelt differently from the request
C5_Witness ==
    /\ pc = "after_pick"
    /\ picked = "True"
    /\ settled = "PWTimeout"
    /\ cur_val # date_str

CurrentMonth(c) ==
    /\ S_day \in Range(Split(c.class, " "))
    /\ S_old \notin Range(Split(c.class, " "))
    /\ S_new \notin Range(Split(c.class, " "))

IsTheDay(c) == CurrentMonth(c) /\ Strip(c.text) = IntToStr(day)

\* C8: the clicked day cell is a current-month cell whose trimmed text is
\* the day number without leading zero, the first such cell, and its class
\* attribute does not contain "disabled"; when no cell matches or the first
\* match is disabled the picker returns False and no day cell is clicked.
C8_ClickedCell ==
    /\ dayClicked # 0 =>
          /\ dayClicked \in DOMAIN cells
          /\ IsTheDay(cells[dayClicked])
          /\ \A j \in 1..(dayClicked - 1) : ~IsTheDay(cells[j])
          /\ ~Contains(cells[dayClicked].class, S_disabled)
          /\ strptime_dmY(date_str) # << >>
          /\ day = strptime_dmY(date_str)[3]
    /\ pc = "after_pick" =>
          LET first == {i \in DOMAIN cells :
                           IsTheDay(cells[i])
                           /\ \A j \in 1..(i - 1) : ~IsTheDay(cells[j])}
          IN  (\A i \in first : Contains(Lower(cells[i].class), S_disabled))
                 => (picked = "False" /\ dayClicked = 0)

\* the second cell was clicked: the first one is not the day of this month
C8_Witness ==
    /\ dayClicked = 2
    /\ ~IsTheDay(cells[1])
    /\ Strip(cells[1].text) = IntToStr(day)

\* the month the widget shows after the clicks cs[1..k], by its own rule
Offset(cs, k) ==
    LET moves == [i \in 1..k |-> IF cs[i] = "next" THEN 1 ELSE -1]
        sum[i \in 0..k] == IF i = 0 THEN 0 ELSE sum[i - 1] + moves[i]
    IN  sum[k]
ShownMonth(w, cs, k) == MonthAdd(w.start, IF w.frozen THEN 0 ELSE Offset(cs, k))
ShownLabel(w, cs, k) == Strip(Label(w, Offset(cs, k)))
\* an abbreviated label is a full month name only for May
Readable(w, ym) == w.style # "short" \/ ym[2] = 5
MonthIndex(ym) == ym[1] * 12 + ym[2]
TargetMonth == <<strptime_dmY(date_str)[1], strptime_dmY(date_str)[2]>>

ExtractsNothing(c) ==
    /\ IF c.fare # None THEN Strip(c.fare[1]) = << >>
       ELSE c.text = None \/ Strip(c.text[1]) = << >>
    /\ c.aria = None \/ Strip(c.aria[1]) = << >>

\* the wrappers that yield a row
HasTitle(w) == w.title # None
HasCell(w) == Len(w.selects) > 0
Yielding(ws) == SelectSeq(ws, LAMBDA w : HasTitle(w) /\ HasCell(w))
Titled(ws) == SelectSeq(ws, HasTitle)

\* C7: in every row of a result, available holds exactly for the codes
\* LIMITED, BOOK_NOW and AVAILABLE; seats_left is a natural number for
\* LIMITED, 0 for FULL and None for the other codes; the code is one of the
\* six; and a row whose extracted status text was empty has status_text
\* "Not Available" and code NA.
C7_RowInvariants ==
    (result # None /\ result[1].rows # << >>) =>
       LET rs == result[1].rows
           ws == Yielding(table[1].wraps)
       IN  /\ Len(ws) = Len(rs)
           /\ \A i \in DOMAIN rs :
                 LET r == rs[i]
                 IN  /\ r.code \in {"LIMITED", "BOOK_NOW", "FULL", "NA",
                                    "AVAILABLE", "UNKNOWN"}
                     /\ r.available <=>
                           r.code \in {"LIMITED", "BOOK_NOW", "AVAILABLE"}
                     /\ r.code = "LIMITED" =>
                           r.seats_left # None /\ r.seats_left[1] \in Nat
                     /\ r.code = "FULL" => r.seats_left = Some(0)
                     /\ r.code \notin {"LIMITED", "FULL"} => r.seats_left = None
                     /\ r.status_text # << >>
                     /\ ExtractsNothing(ws[i].selects[1]) =>
                           r.status_text = S_Not_Available /\ r.code = "NA"

\* a result with a LIMITED row and a row whose cell gave no text at all
C7_Witness ==
    /\ result # None
    /\ Len(result[1].rows) = 2
    /\ result[1].rows[1].code = "LIMITED"
    /\ result[1].rows[1].seats_left = Some(3)
    /\ Yielding(table[1].wraps)[2].selects[1] = StatusCell(None, None, None)
    /\ result[1].rows[2].status_text = S_Not_Available

ReaderReturned == table # None /\ exc = "none"

\* C10 as stated: the reader returns one row for each wrapper that has a
\* title element, in the wrappers' order, and none for the others.
C10_RowPerTitledWrapper ==
    ReaderReturned =>
       LET ws == Titled(table[1].wraps)
       IN  /\ Len(rows) = Len(ws)
           /\ \A i \in DOMAIN rows : rows[i].name = Strip(ws[i].title[1])

\* C10 amended: the reader returns one row for each wrapper that has a
\* title element and at least one date-status cell, in the wrappers' order,
\* and none for the others; the row's name is the trimmed title and its
\* status is that of the wrapper's first date-status cell; without the
\* inner container or without wrappers it returns no rows and raises
\* nothing.
C10_RowPerYieldingWrapper ==
    /\ ReaderReturned =>
          LET ws == Yielding(table[1].wraps)
          IN  /\ Len(rows) = Len(ws)
              /\ \A i \in DOMAIN rows :
                    LET txt == status_text_of(ws[i].selects[1])
                    IN  /\ rows[i].name = Strip(ws[i].title[1])
                        /\ rows[i].status_text =
                              IF txt = << >> THEN S_Not_Available ELSE txt
                        /\ rows[i].code = RulesOnWords(txt)[1]
    /\ (table # None /\ (~table[1].container \/ table[1].wraps = << >>)) =>
          rows = << >> /\ exc = "none"

\* a titled wrapper without cells gave no row, and a wrapper with two cells
\* gave the row of its first cell
C10_Witness ==
    /\ ReaderReturned
    /\ Len(table[1].wraps) = 2
    /\ HasTitle(table[1].wraps[1]) /\ ~HasCell(table[1].wraps[1])
    /\ Len(table[1].wraps[2].selects) = 2
    /\ Len(rows) = 1
    /\ rows[1].code = "BOOK_NOW"

=============================================================================
